---- MODULE Spec2Model ----
(***************************************************************************)
(* The file storage subsystem of the front-end template:                  *)
(*   IndexedDb           a namespaced key-value wrapper over idb-keyval    *)
(*   FileStorageService  File <-> StoredFile conversion and size limits    *)
(*   useFileStore        the metadata store driving uploads and removals   *)
(* JavaScript runs on one event loop.  A step of this model is what runs   *)
(* without yielding to the loop: the synchronous part of a call, a         *)
(* microtask continuation, or the completion of one IndexedDB request      *)
(* together with the promise continuations that it triggers.               *)
(***************************************************************************)
EXTENDS Integers, Sequences, FiniteSets, TLC

VARIABLES
    db,         \* the shared idb-keyval store: full key -> stored value
    idb,        \* IndexedDB requests issued and not yet completed, in issue order
    sizeCache,  \* FileStorageService.sizeCache: fileKey -> size
    files,      \* useFileStore state.files: fileId -> StoredFileMetadata
    saves,      \* saveFile activations that have not yet reached storage.set
    calls,      \* calls whose promise is still pending: call id -> call record
    ncalls,     \* number of calls made on the store so far
    ev          \* the last step: the operation it belongs to and its outcome

vars == <<db, idb, sizeCache, files, saves, calls, ncalls, ev>>

(***************************************************************************)
(* Bounds of the model.                                                    *)
(***************************************************************************)
\* calls made on the store in one run of SpecSeq
MaxStoreCalls == 3
\* calls made on the store in one run of SpecStore
MaxOverlap == 2
\* longest list handed to addFiles / removeFiles / deleteFiles
MaxBatch == 2
\* calls made in a run with the store's getters
MaxGetCalls == 2

(***************************************************************************)
(* Program constants.                                                      *)
(***************************************************************************)
MAX_FILE_SIZE == 100 * 1024 * 1024
MAX_TOTAL_SIZE == 500 * 1024 * 1024
DEFAULT_SEPARATOR == "/"

\* new IndexedDb(config): the separator defaults to "/"
IndexedDb(config) ==
    [prefix |-> config.prefix,
     separator |-> IF "separator" \in DOMAIN config THEN config.separator
                   ELSE DEFAULT_SEPARATOR]

\* private storage = new IndexedDb({ prefix: "local-files" })
storage == IndexedDb([prefix |-> "local-files"])

(***************************************************************************)
(* Finite maps (JavaScript Map / Record / the key-value store).            *)
(***************************************************************************)
EmptyMap == [x \in {} |-> 0]
Put(m, k, v) == [x \in (DOMAIN m) \cup {k} |-> IF x = k THEN v ELSE m[x]]
Remove(m, ks) == [x \in (DOMAIN m) \ ks |-> m[x]]

(***************************************************************************)
(* IndexedDb: key prefixing.                                               *)
(***************************************************************************)
getFullKey(ns, key) == ns.prefix \o ns.separator \o key

\* String.prototype.startsWith
startsWith(s, p) == Len(p) <= Len(s) /\ SubSeq(s, 1, Len(p)) = p

\* the filter of IndexedDb.clear over the keys that keys() returned
\* (every key of the modelled store is a string)
prefixedKeys(ns, allKeys) ==
    {k \in allKeys : startsWith(k, ns.prefix \o ns.separator)}

(***************************************************************************)
(* Files.  A File is its name, MIME type, lastModified, size and bytes;    *)
(* the bytes are a blob identity with its byte length.                     *)
(***************************************************************************)
Bytes(id, n) == [blob |-> id, byteLength |-> n]

\* ASCII lower-casing of the type option, as the File constructor does
LowerType(t) ==
    CASE t = "TEXT/PLAIN" -> "text/plain"
      [] t = "IMAGE/PNG" -> "image/png"
      [] OTHER -> t

\* new File([bits], name, { type, lastModified })
NewFile(bits, name, options) ==
    [name |-> name, type |-> LowerType(options.type),
     lastModified |-> options.lastModified,
     size |-> bits.byteLength, data |-> bits]

\* await file.arrayBuffer()
arrayBuffer(file) == file.data

MutFileToStoredFile(file) ==
    [data |-> arrayBuffer(file), name |-> file.name, type |-> file.type,
     lastModified |-> 0, size |-> file.size]

\* FileStorageService.fileToStoredFile, past its size check
fileToStoredFile(file) ==
    [data |-> arrayBuffer(file), name |-> file.name, type |-> file.type,
     lastModified |-> file.lastModified, size |-> file.size]

\* FileStorageService.storedFileToFile
storedFileToFile(stored) ==
    NewFile(stored.data, stored.name,
            [type |-> stored.type, lastModified |-> stored.lastModified])

MutExceedsFileSize(file) == file.size > MAX_TOTAL_SIZE

\* the guard of fileToStoredFile: the file is larger than MAX_FILE_SIZE
ExceedsFileSize(file) == file.size > MAX_FILE_SIZE

RECURSIVE SumOf(_, _)
SumOf(m, ks) ==
    IF ks = {} THEN 0
    ELSE LET k == CHOOSE x \in ks : TRUE IN m[k] + SumOf(m, ks \ {k})

\* FileStorageService.getTotalSize: the sum of the size cache
getTotalSize(cache) == SumOf(cache, DOMAIN cache)

MutCanStoreFile(cache, fileSize) == getTotalSize(cache) <= MAX_TOTAL_SIZE

\* FileStorageService.canStoreFile
canStoreFile(cache, fileSize) == getTotalSize(cache) + fileSize <= MAX_TOTAL_SIZE

\* the messages of the two errors saveFile throws, and of an engine failure
TotalLimitMessage == "Cannot store file: would exceed storage limit of 500MB"
FileLimitMessage(file) ==
    "File \"" \o file.name \o "\" exceeds maximum size of 100MB"
EngineMessage == "UnderlyingStorageFailure"

(***************************************************************************)
(* Inputs.                                                                 *)
(***************************************************************************)
fileA == NewFile(Bytes(1, 10), "a.txt",
                 [type |-> "text/plain", lastModified |-> 1000])
fileB == NewFile(Bytes(2, MAX_FILE_SIZE), "b.png",
                 [type |-> "image/png", lastModified |-> 2000])
fileHuge == NewFile(Bytes(3, MAX_FILE_SIZE + 1), "c.bin",
                    [type |-> "application/octet-stream", lastModified |-> 3000])
NoFile == NewFile(Bytes(0, 0), "", [type |-> "", lastModified |-> 0])

SvcFiles == {fileA, fileB, fileHuge}
SvcKeys == {"k1", "k2", "k3", "k4", "k5", "k6"}
SvcBatches == {<<"k1">>, <<"k1", "k2">>, <<"k2", "k1">>, <<"k3", "k3">>}

(***************************************************************************)
(* Calls, IndexedDB requests and step records.                             *)
(***************************************************************************)
NoRet == [kind |-> "none"]
Undefined == [kind |-> "undefined"]
FileRet(f) == [kind |-> "file", file |-> f]
SizeRet(n) == [kind |-> "size", n |-> n]
ErrorRet(message) == [kind |-> "error", message |-> message]
\* storage.set wrote the record; replaced: over a different one
StoredRet(replaced) == [kind |-> "stored", replaced |-> replaced]
\* the fileEntries that Promise.allSettled handed to addFiles
EntriesRet(entries) == [kind |-> "entries", entries |-> entries]

\* a call record; every operation fills the fields it uses
NewCall(op) ==
    [op |-> op, key |-> "", file |-> NoFile, keys |-> <<>>, entries |-> <<>>,
     left |-> 0, ns |-> storage, total |-> 0, had |-> {}]

NoCall == NewCall("none")

\* an IndexedDB request: op is get, set, del, keys or delMany
Request(op, call) ==
    [op |-> op, call |-> call, idx |-> 0, key |-> "", fkey |-> "",
     file |-> NoFile, val |-> fileToStoredFile(NoFile), keys |-> {}]

\* the record of a step: the operation of the call it belongs to ("none" for
\* a request that nobody awaits any more), whether it settled the call
\* (resolved / rejected) or not (called / step / detached), and what it returned
Event(op, outcome, ret) == [op |-> op, outcome |-> outcome, ret |-> ret]

Idle == DOMAIN calls = {}

\* promise continuations (microtasks) run before the next event-loop task
NoMicrotask == \A s \in saves : s.pc # "throw"

\* the id a new call gets: the first one no pending call holds
NewId ==
    CHOOSE i \in 1..(Cardinality(DOMAIN calls) + 1) :
        /\ i \notin DOMAIN calls
        /\ \A j \in 1..(i - 1) : j \in DOMAIN calls

\* the requests of a call whose promise has settled are awaited by nobody
Detach(q, id) ==
    [i \in DOMAIN q |-> IF q[i].call = id THEN [q[i] EXCEPT !.call = 0] ELSE q[i]]

CtxOf(id) == IF id \in DOMAIN calls THEN calls[id] ELSE NoCall

Range(q) == {q[i] : i \in DOMAIN q}

Settled(ok) == IF ok THEN "resolved" ELSE "rejected"

\* the operations of a bare IndexedDb instance, which keep no size cache
NsOps == {"ns.get", "ns.set", "ns.delete", "ns.clear"}

Init ==
    /\ db = EmptyMap
    /\ idb = <<>>
    /\ sizeCache = EmptyMap
    /\ files = EmptyMap
    /\ saves = {}
    /\ calls = EmptyMap
    /\ ncalls = 0
    /\ ev = Event("init", "none", NoRet)

(***************************************************************************)
(* FileStorageService.saveFile, and the part of addFiles that awaits it.   *)
(***************************************************************************)
MutCacheAfterSave(cache, fileKey, file) == cache

\* this.sizeCache.set(fileKey, file.size)
CacheAfterSave(cache, fileKey, file) == Put(cache, fileKey, file.size)

\* The synchronous part of saveFile(fileKey, file): getTotalSize() sums the
\* cache at once, so the limit check is decided by the cache at call time.
\* A save that will throw does so in a microtask (pc "throw"); the others
\* wait for file.arrayBuffer() (pc "read").
saveFile(cache, call, idx, fileKey, file) ==
    [call |-> call, idx |-> idx, key |-> fileKey, file |-> file,
     pc |-> IF canStoreFile(cache, file.size) /\ ~ExceedsFileSize(file)
            THEN "read" ELSE "throw",
     message |-> IF ~canStoreFile(cache, file.size) THEN TotalLimitMessage
                 ELSE FileLimitMessage(file)]

MutStatusAfterSave(ok) == "success"

\* the status addFiles gives an entry when its save has settled
StatusAfterSave(ok) == IF ok THEN "success" ELSE "error"

MutFilesAfterSave(fs, fileId, ok, message) ==
    [k \in DOMAIN fs |-> [fs[k] EXCEPT !.status = StatusAfterSave(ok)]]

MutFilesAfterSaveUpsert(fs, fileId, ok, message) ==
    Put(fs, fileId,
        [fileKey |-> fileId, name |-> NoFile.name, size |-> NoFile.size,
         type |-> NoFile.type, lastModified |-> NoFile.lastModified,
         status |-> StatusAfterSave(ok),
         error |-> IF ok THEN "(none)" ELSE message, repeated |-> FALSE])

\* addFiles, after `await fileStorage.saveFile(fileKey, file)` settled
FilesAfterSave(fs, fileId, ok, message) ==
    IF fileId \in DOMAIN fs
    THEN [fs EXCEPT ![fileId] =
            [@ EXCEPT !.status = StatusAfterSave(ok),
                      !.error = IF ok THEN @ ELSE message]]
    ELSE fs

MutErrorMessage(ret) == "(none)"

\* addFiles: error instanceof Error ? error.message : "Failed to save file"
errorMessage(ret) ==
    IF ret.kind = "error" THEN ret.message ELSE "Failed to save file"

MutAllSettled(entries) == \E i \in DOMAIN entries : entries[i].settled

\* Promise.allSettled: fulfilled once every promise of the list has settled
allSettled(entries) == \A i \in DOMAIN entries : entries[i].settled

\* What follows a save that has settled: saveFile updates the size cache on
\* success; a direct caller gets the outcome; addFiles records the outcome in
\* the entry's status and resolves (Promise.allSettled) with the last one.
SaveSettled(s, ok, ret) ==
    LET c == calls[s.call]
        entries == [c.entries EXCEPT ![s.idx].success = ok,
                                     ![s.idx].settled = TRUE]
        done == allSettled(entries)
    IN  /\ sizeCache' = IF ok THEN CacheAfterSave(sizeCache, s.key, s.file)
                        ELSE sizeCache
        /\ IF c.op = "saveFile"
           THEN /\ files' = files
                /\ calls' = Remove(calls, {s.call})
                /\ ev' = Event("saveFile", Settled(ok), ret)
           ELSE /\ files' = FilesAfterSave(files, c.entries[s.idx].fileId, ok,
                                errorMessage(ret))
                /\ calls' = IF done THEN Remove(calls, {s.call})
                            ELSE [calls EXCEPT ![s.call].entries = entries]
                /\ ev' = IF done
                         THEN Event("addFiles", "resolved", EntriesRet(entries))
                         ELSE Event("addFiles", "step", ret)

\* a call of FileStorageService.saveFile(fileKey, file)
SaveFile(fileKey, file) ==
    /\ saves' = saves \cup {saveFile(sizeCache, NewId, 0, fileKey, file)}
    /\ calls' = Put(calls, NewId,
                    [NewCall("saveFile") EXCEPT !.key = fileKey, !.file = file,
                        !.total = getTotalSize(sizeCache)])
    /\ ev' = Event("saveFile", "called", NoRet)
    /\ UNCHANGED <<db, idb, sizeCache, files, ncalls>>

\* the microtask in which a save over a limit throws
SaveThrow(s) ==
    /\ s \in saves /\ s.pc = "throw"
    /\ saves' = saves \ {s}
    /\ SaveSettled(s, FALSE, ErrorRet(s.message))
    /\ UNCHANGED <<db, idb, ncalls>>

\* file.arrayBuffer() settles: the record is handed to storage.set, or the
\* read failed and the save rejects
SaveRead(s, ok) ==
    /\ s \in saves /\ s.pc = "read" /\ NoMicrotask
    /\ saves' = saves \ {s}
    /\ IF ok
       THEN /\ idb' = Append(idb,
                 [Request("set", s.call) EXCEPT !.idx = s.idx,
                     !.key = getFullKey(storage, s.key), !.fkey = s.key,
                     !.file = s.file, !.val = fileToStoredFile(s.file)])
            /\ ev' = Event(calls[s.call].op, "step", NoRet)
            /\ UNCHANGED <<sizeCache, files, calls>>
       ELSE /\ idb' = idb
            /\ SaveSettled(s, FALSE, ErrorRet(EngineMessage))
    /\ UNCHANGED <<db, ncalls>>

\* storage.set completes: idb-keyval set(fullKey, value) wrote the value, or
\* the engine failed and nothing was written
IdbSet(ok) ==
    /\ idb # <<>> /\ Head(idb).op = "set" /\ NoMicrotask
    /\ LET r == Head(idb)
           c == calls[r.call]
           ret == IF ok
                  THEN StoredRet(r.key \in DOMAIN db /\ db[r.key] # r.val)
                  ELSE ErrorRet(EngineMessage)
       IN  /\ db' = IF ok THEN Put(db, r.key, r.val) ELSE db
           /\ idb' = Tail(idb)
           /\ IF c.op = "ns.set"
              THEN /\ calls' = Remove(calls, {r.call})
                   /\ ev' = Event(c.op, Settled(ok), ret)
                   /\ UNCHANGED <<sizeCache, files>>
              ELSE SaveSettled([call |-> r.call, idx |-> r.idx, key |-> r.fkey,
                                file |-> r.file], ok, ret)
    /\ UNCHANGED <<saves, ncalls>>

(***************************************************************************)
(* FileStorageService.deleteFile / deleteFiles, and the store's            *)
(* removeFile / removeFiles which await them.                              *)
(***************************************************************************)
MutCacheAfterDelete(cache, fileKey) == cache

\* this.sizeCache.delete(fileKey)
CacheAfterDelete(cache, fileKey) == Remove(cache, {fileKey})

MutFilesAfterRemove(fs, c, ok, last) == Remove(fs, Range(c.keys) \cup {c.key})

\* removeFile / removeFiles, after `await fileStorage.deleteFile(s)` settled:
\* the entries go once every deletion has succeeded, and stay if one failed
FilesAfterRemove(fs, c, ok, last) ==
    IF ok /\ last /\ c.op = "removeFile" THEN Remove(fs, {c.key})
    ELSE IF ok /\ last /\ c.op = "removeFiles" THEN Remove(fs, Range(c.keys))
    ELSE fs

MutDeleteRequests(call, fileKeys) ==
    [i \in DOMAIN fileKeys |->
        [Request("del", call) EXCEPT !.idx = i,
            !.key = getFullKey(storage, fileKeys[1]), !.fkey = fileKeys[1]]]

\* the requests storage.delete issues for fileKeys, in order
DeleteRequests(call, fileKeys) ==
    [i \in DOMAIN fileKeys |->
        [Request("del", call) EXCEPT !.idx = i,
            !.key = getFullKey(storage, fileKeys[i]), !.fkey = fileKeys[i]]]

\* storage.delete completes.  deleteFile drops the key from the size cache on
\* success.  Promise.all (deleteFiles) resolves with the last success and
\* rejects with the first failure; the deletions still in flight after a
\* rejection complete all the same, with nobody awaiting them (CtxOf is NoCall).
IdbDel(ok) ==
    /\ idb # <<>> /\ Head(idb).op = "del" /\ NoMicrotask
    /\ LET r == Head(idb)
           c == CtxOf(r.call)
           last == c.left = 1
       IN  /\ db' = IF ok THEN Remove(db, {r.key}) ELSE db
           /\ idb' = IF ok THEN Tail(idb) ELSE Detach(Tail(idb), r.call)
           /\ sizeCache' = IF ok /\ c.op \notin NsOps
                           THEN CacheAfterDelete(sizeCache, r.fkey)
                           ELSE sizeCache
           /\ files' = FilesAfterRemove(files, c, ok, last)
           /\ calls' = IF c.op = "none" THEN calls
                       ELSE IF ~ok \/ last THEN Remove(calls, {r.call})
                       ELSE [calls EXCEPT ![r.call].left = @ - 1]
           /\ ev' = Event(c.op,
                          IF c.op = "none" THEN "detached"
                          ELSE IF ~ok THEN "rejected"
                          ELSE IF last THEN "resolved" ELSE "step",
                          IF ok THEN NoRet ELSE ErrorRet(EngineMessage))
    /\ UNCHANGED <<saves, ncalls>>

\* a call of FileStorageService.deleteFile(fileKey)
DeleteFile(fileKey) ==
    /\ idb' = idb \o DeleteRequests(NewId, <<fileKey>>)
    /\ calls' = Put(calls, NewId,
                    [NewCall("deleteFile") EXCEPT !.key = fileKey, !.left = 1])
    /\ ev' = Event("deleteFile", "called", NoRet)
    /\ UNCHANGED <<db, sizeCache, files, saves, ncalls>>

\* a call of FileStorageService.deleteFiles(fileKeys), fileKeys not empty
DeleteFiles(fileKeys) ==
    /\ idb' = idb \o DeleteRequests(NewId, fileKeys)
    /\ calls' = Put(calls, NewId,
                    [NewCall("deleteFiles") EXCEPT !.keys = fileKeys,
                        !.left = Len(fileKeys)])
    /\ ev' = Event("deleteFiles", "called", NoRet)
    /\ UNCHANGED <<db, sizeCache, files, saves, ncalls>>

(***************************************************************************)
(* IndexedDb.clear and FileStorageService.clearAllFiles.                   *)
(***************************************************************************)
\* keys() completes: clear filters the keys the store holds now and hands
\* them to delMany; a failure of keys() rejects the call
IdbKeys(ok) ==
    /\ idb # <<>> /\ Head(idb).op = "keys" /\ NoMicrotask
    /\ LET r == Head(idb)
           c == calls[r.call]
       IN  /\ idb' = IF ok
                     THEN Append(Tail(idb),
                            [Request("delMany", r.call) EXCEPT
                                !.keys = prefixedKeys(c.ns, DOMAIN db)])
                     ELSE Tail(idb)
           /\ calls' = IF ok THEN calls ELSE Remove(calls, {r.call})
           /\ ev' = Event(c.op, IF ok THEN "step" ELSE "rejected",
                          IF ok THEN NoRet ELSE ErrorRet(EngineMessage))
    /\ UNCHANGED <<db, sizeCache, files, saves, ncalls>>

MutCacheAfterClear(cache, ok) == EmptyMap

\* clearAllFiles: this.sizeCache.clear(), reached only if storage.clear() resolved
CacheAfterClear(cache, ok) == IF ok THEN EmptyMap ELSE cache

MutFilesAfterClear(fs, ok) == EmptyMap

\* the store's clearAllFiles: state.files = {}, in the try block after the await
FilesAfterClear(fs, ok) == IF ok THEN EmptyMap ELSE fs

\* delMany(prefixedKeys) completes: one transaction, all keys or none
IdbDelMany(ok) ==
    /\ idb # <<>> /\ Head(idb).op = "delMany" /\ NoMicrotask
    /\ LET r == Head(idb)
           c == calls[r.call]
       IN  /\ db' = IF ok THEN Remove(db, r.keys) ELSE db
           /\ idb' = Tail(idb)
           /\ sizeCache' = IF c.op \notin NsOps
                           THEN CacheAfterClear(sizeCache, ok) ELSE sizeCache
           /\ files' = IF c.op = "store.clearAllFiles"
                       THEN FilesAfterClear(files, ok) ELSE files
           /\ calls' = Remove(calls, {r.call})
           /\ ev' = Event(c.op, Settled(ok),
                          IF ok THEN NoRet ELSE ErrorRet(EngineMessage))
    /\ UNCHANGED <<saves, ncalls>>

\* a call of FileStorageService.clearAllFiles()
ClearAllFiles ==
    /\ idb' = Append(idb, Request("keys", NewId))
    /\ calls' = Put(calls, NewId, NewCall("clearAllFiles"))
    /\ ev' = Event("clearAllFiles", "called", NoRet)
    /\ UNCHANGED <<db, sizeCache, files, saves, ncalls>>

(***************************************************************************)
(* FileStorageService.loadFile and getTotalSize.                           *)
(***************************************************************************)
\* what loadFile returns once storage.get has settled: the File rebuilt from
\* the record, or undefined when there is none or the read threw
loadFile(store, fullKey, ok) ==
    IF ok /\ fullKey \in DOMAIN store
    THEN FileRet(storedFileToFile(store[fullKey]))
    ELSE Undefined

FilesRet(found) == [kind |-> "files", found |-> found]

\* the store's getters that load files, and those among them that load many
StoreLoads == {"getFile", "getFiles", "getAllFiles"}
LoadsMany == {"getFiles", "getAllFiles"}

MutFilesAfterGet(fs, fileId, loaded) ==
    IF loaded.kind = "file" THEN fs ELSE Remove(fs, {fileId})

\* getFile / getFiles make no set() call: the metadata map after the load
\* is the map before it, whatever the load returned
FilesAfterGet(fs, fileId, loaded) == fs

\* storage.get completes.  loadFiles (Promise.all over loadFile, which never
\* rejects) collects the files found and resolves with the last completion.
IdbGet(ok) ==
    /\ idb # <<>> /\ Head(idb).op = "get" /\ NoMicrotask
    /\ LET r == Head(idb)
           c == calls[r.call]
           loaded == loadFile(db, r.key, ok)
           found == IF loaded.kind = "file"
                    THEN Append(c.entries,
                                [fileId |-> r.fkey, file |-> loaded.file])
                    ELSE c.entries
           last == c.left <= 1
       IN  /\ idb' = Tail(idb)
           /\ calls' = IF c.op \in LoadsMany /\ ~last
                       THEN [calls EXCEPT ![r.call].left = @ - 1,
                                          ![r.call].entries = found]
                       ELSE Remove(calls, {r.call})
           /\ ev' = IF c.op \in {"ns.get", "file-service.loadFile"}
                    THEN Event(c.op, Settled(ok),
                               IF ~ok THEN ErrorRet(EngineMessage)
                               ELSE IF r.key \in DOMAIN db
                               THEN [kind |-> "value", val |-> db[r.key]]
                               ELSE Undefined)
                    ELSE IF c.op \in LoadsMany
                    THEN IF last THEN Event(c.op, "resolved", FilesRet(found))
                         ELSE Event(c.op, "step", NoRet)
                    ELSE Event(c.op, "resolved", loaded)
           /\ files' = IF c.op \in StoreLoads
                       THEN FilesAfterGet(files, r.fkey, loaded) ELSE files
    /\ UNCHANGED <<db, sizeCache, saves, ncalls>>

\* a call of FileStorageService.loadFile(fileKey)
LoadFile(fileKey) ==
    /\ idb' = Append(idb, [Request("get", NewId) EXCEPT
                              !.key = getFullKey(storage, fileKey),
                              !.fkey = fileKey])
    /\ calls' = Put(calls, NewId, [NewCall("loadFile") EXCEPT !.key = fileKey])
    /\ ev' = Event("loadFile", "called", NoRet)
    /\ UNCHANGED <<db, sizeCache, files, saves, ncalls>>

\* a call of loadFile(fileKey) of the FileStorageService of file-service.ts,
\* which returns this.storage.get(fileKey) as it is
FileServiceLoadFile(fileKey) ==
    /\ idb' = Append(idb, [Request("get", NewId) EXCEPT
                              !.key = getFullKey(storage, fileKey),
                              !.fkey = fileKey])
    /\ calls' = Put(calls, NewId,
                    [NewCall("file-service.loadFile") EXCEPT !.key = fileKey])
    /\ ev' = Event("file-service.loadFile", "called", NoRet)
    /\ UNCHANGED <<db, sizeCache, files, saves, ncalls>>

\* a call of FileStorageService.getTotalSize(): it awaits nothing
GetTotalSize ==
    /\ ev' = Event("getTotalSize", "resolved", SizeRet(getTotalSize(sizeCache)))
    /\ UNCHANGED <<db, idb, sizeCache, files, saves, calls, ncalls>>

(***************************************************************************)
(* The asynchronous steps, shared by every specification.                  *)
(***************************************************************************)
SaveThrows == \E s \in saves : SaveThrow(s)
SaveReads == \E s \in saves, ok \in BOOLEAN : SaveRead(s, ok)
IdbSets == \E ok \in BOOLEAN : IdbSet(ok)
IdbDels == \E ok \in BOOLEAN : IdbDel(ok)
IdbKeyss == \E ok \in BOOLEAN : IdbKeys(ok)
IdbDelManys == \E ok \in BOOLEAN : IdbDelMany(ok)
IdbGets == \E ok \in BOOLEAN : IdbGet(ok)

(***************************************************************************)
(* SpecNs: IndexedDb instances over the one underlying store, their get,   *)
(* set, delete and clear called one after another.                         *)
(***************************************************************************)
\* a call of get(key) on the instance ns
NsGet(ns, key) ==
    /\ idb' = Append(idb, [Request("get", NewId) EXCEPT
                              !.key = getFullKey(ns, key), !.fkey = key])
    /\ calls' = Put(calls, NewId,
                    [NewCall("ns.get") EXCEPT !.ns = ns, !.key = key])
    /\ ev' = Event("ns.get", "called", NoRet)
    /\ UNCHANGED <<db, sizeCache, files, saves, ncalls>>

\* a call of set(key, value) on the instance ns
NsSet(ns, key, value) ==
    /\ idb' = Append(idb, [Request("set", NewId) EXCEPT
                              !.key = getFullKey(ns, key), !.fkey = key,
                              !.val = value])
    /\ calls' = Put(calls, NewId,
                    [NewCall("ns.set") EXCEPT !.ns = ns, !.key = key])
    /\ ev' = Event("ns.set", "called", NoRet)
    /\ UNCHANGED <<db, sizeCache, files, saves, ncalls>>

\* a call of delete(key) on the instance ns
NsDelete(ns, key) ==
    /\ idb' = Append(idb, [Request("del", NewId) EXCEPT
                              !.key = getFullKey(ns, key), !.fkey = key])
    /\ calls' = Put(calls, NewId,
                    [NewCall("ns.delete") EXCEPT !.ns = ns, !.key = key,
                        !.left = 1])
    /\ ev' = Event("ns.delete", "called", NoRet)
    /\ UNCHANGED <<db, sizeCache, files, saves, ncalls>>

\* a call of clear() on the instance ns
NsClear(ns) ==
    /\ idb' = Append(idb, Request("keys", NewId))
    /\ calls' = Put(calls, NewId, [NewCall("ns.clear") EXCEPT !.ns = ns])
    /\ ev' = Event("ns.clear", "called", NoRet)
    /\ UNCHANGED <<db, sizeCache, files, saves, ncalls>>

Namespaces ==
    {IndexedDb([prefix |-> "a"]),
     IndexedDb([prefix |-> "a/b"]),
     IndexedDb([prefix |-> "a", separator |-> "-"])}
\* keys are arbitrary strings: "b/x" holds the separator
NsKeys == {"x", "y", "b/x"}
NsValues == {fileToStoredFile(fileA), fileToStoredFile(fileB)}

NsCallGet == Idle /\ \E ns \in Namespaces, k \in NsKeys : NsGet(ns, k)
NsCallSet ==
    Idle /\ \E ns \in Namespaces, k \in NsKeys, v \in NsValues : NsSet(ns, k, v)
NsCallDelete == Idle /\ \E ns \in Namespaces, k \in NsKeys : NsDelete(ns, k)
NsCallClear == Idle /\ \E ns \in Namespaces : NsClear(ns)

NextNs ==
    \/ NsCallGet
    \/ NsCallSet
    \/ NsCallDelete
    \/ NsCallClear
    \/ IdbGets
    \/ IdbSets
    \/ IdbDels
    \/ IdbKeyss
    \/ IdbDelManys

SpecNs == Init /\ [][NextNs]_vars

(***************************************************************************)
(* SpecSvc: calls made on a fresh FileStorageService one after another,    *)
(* each awaited before the next is made.                                   *)
(***************************************************************************)
SvcSaveFile == Idle /\ \E k \in SvcKeys, f \in SvcFiles : SaveFile(k, f)
SvcDeleteFile == Idle /\ \E k \in SvcKeys : DeleteFile(k)
SvcDeleteFiles == Idle /\ \E ks \in SvcBatches : DeleteFiles(ks)
SvcClearAllFiles == Idle /\ ClearAllFiles
SvcLoadFile == Idle /\ \E k \in SvcKeys : LoadFile(k)
SvcGetTotalSize == Idle /\ GetTotalSize
SvcFileServiceLoadFile == Idle /\ \E k \in SvcKeys : FileServiceLoadFile(k)

NextSvc ==
    \/ SvcSaveFile
    \/ SvcDeleteFile
    \/ SvcDeleteFiles
    \/ SvcClearAllFiles
    \/ SvcLoadFile
    \/ SvcGetTotalSize
    \/ SvcFileServiceLoadFile
    \/ SaveThrows
    \/ SaveReads
    \/ IdbSets
    \/ IdbDels
    \/ IdbKeyss
    \/ IdbDelManys
    \/ IdbGets

SpecSvc == Init /\ [][NextSvc]_vars

(***************************************************************************)
(* useFileStore: the metadata store.  fileId is the fileKey.  uploadedAt   *)
(* (Date.now() at insertion) is read by no operation and is left out.      *)
(***************************************************************************)
NoError == "(none)"

\* generateFileKey: nonce stands for `${Date.now()}-${randomSuffix}`, which
\* nothing keeps from repeating
generateFileKey(file, nonce) ==
    file.name \o "-" \o ToString(file.size) \o "-" \o nonce

MutUploading(file, fileKey) ==
    [fileKey |-> fileKey, name |-> file.name, size |-> file.size,
     type |-> file.type, lastModified |-> file.lastModified,
     status |-> "pending", error |-> NoError, repeated |-> FALSE]

\* the entry addFiles inserts before the save starts.  `repeated` is a history
\* field, not a field of the program: whether generateFileKey returned a key
\* that was in use already (see AddFiles); no operation reads it.
Uploading(file, fileKey) ==
    [fileKey |-> fileKey, name |-> file.name, size |-> file.size,
     type |-> file.type, lastModified |-> file.lastModified,
     status |-> "uploading", error |-> NoError, repeated |-> FALSE]

\* the keys in use by the store: those of the entries and of the saves that
\* have not settled
KeysInUse ==
    DOMAIN files \cup {s.key : s \in saves}
        \cup {r.fkey : r \in {x \in Range(idb) : x.op = "set"}}

\* History kept in the records of the pending addFiles calls, read by no
\* operation: the entry a call created under one of the ids has since been
\* written by someone else (how = "replaced": another addFiles inserted an
\* entry under the same key; how = "touched": setFileStatus wrote it).
Written(cs, ids, how) ==
    [c \in DOMAIN cs |->
        [cs[c] EXCEPT !.entries =
            [i \in DOMAIN @ |->
                IF @[i].fileId \in ids
                THEN IF how = "replaced" THEN [@[i] EXCEPT !.replaced = TRUE]
                     ELSE [@[i] EXCEPT !.touched = TRUE]
                ELSE @[i]]]]

\* addFiles(files): the map callbacks run one after the other up to their
\* first await, so every entry is inserted and every limit check is made,
\* against the same size cache, before anything else runs
AddFiles(fs, nonces) ==
    LET keys == [i \in DOMAIN fs |-> generateFileKey(fs[i], nonces[i])]
        lastOf(k) == CHOOSE i \in DOMAIN fs :
                        keys[i] = k /\ \A j \in DOMAIN fs : keys[j] = k => j <= i
        repeated(k) == \/ k \in KeysInUse
                       \/ \E i \in DOMAIN fs, j \in DOMAIN fs :
                             i # j /\ keys[i] = k /\ keys[j] = k
    IN  /\ ncalls' = ncalls + 1
        /\ files' = [k \in (DOMAIN files) \cup Range(keys) |->
                        IF k \in Range(keys)
                        THEN [Uploading(fs[lastOf(k)], k) EXCEPT
                                !.repeated = repeated(k)]
                        ELSE files[k]]
        /\ saves' = saves \cup
                {saveFile(sizeCache, NewId, i, keys[i], fs[i]) : i \in DOMAIN fs}
        /\ calls' = Put(Written(calls, Range(keys), "replaced"), NewId,
                [NewCall("addFiles") EXCEPT
                    !.entries = [i \in DOMAIN fs |->
                        [fileId |-> keys[i], file |-> fs[i],
                         success |-> FALSE, settled |-> FALSE,
                         replaced |-> FALSE, touched |-> FALSE]],
                    !.total = getTotalSize(sizeCache)])
        /\ ev' = Event("addFiles", "called", NoRet)
        /\ UNCHANGED <<db, idb, sizeCache>>

\* the persisted records among fileKeys
Persisted(fileKeys) ==
    {k \in Range(fileKeys) : getFullKey(storage, k) \in DOMAIN db}

MutNoEntryReturn == Event("removeFile", "rejected", ErrorRet("TypeError"))

\* removeFile: `if (!metadata) return;`
NoEntryReturn == Event("removeFile", "resolved", NoRet)

\* removeFile(fileId): returns at once when there is no entry, and awaits
\* fileStorage.deleteFile(metadata.fileKey) otherwise
RemoveFile(fileId) ==
    /\ ncalls' = ncalls + 1
    /\ IF fileId \notin DOMAIN files
       THEN /\ ev' = NoEntryReturn
            /\ UNCHANGED <<idb, calls>>
       ELSE /\ idb' = idb \o DeleteRequests(NewId, <<files[fileId].fileKey>>)
            /\ calls' = Put(calls, NewId,
                    [NewCall("removeFile") EXCEPT !.key = fileId, !.left = 1,
                        !.had = Persisted(<<files[fileId].fileKey>>)])
            /\ ev' = Event("removeFile", "called", NoRet)
    /\ UNCHANGED <<db, sizeCache, files, saves>>

\* removeFiles(fileIds): awaits fileStorage.deleteFiles of the keys of the
\* ids that have an entry; with none, Promise.all([]) is already resolved
RemoveFiles(fileIds) ==
    LET present == SelectSeq(fileIds, LAMBDA x : x \in DOMAIN files)
        fileKeys == [i \in DOMAIN present |-> files[present[i]].fileKey]
    IN  /\ ncalls' = ncalls + 1
        /\ IF fileKeys = <<>>
           THEN /\ ev' = Event("removeFiles", "resolved", NoRet)
                /\ UNCHANGED <<idb, calls>>
           ELSE /\ idb' = idb \o DeleteRequests(NewId, fileKeys)
                /\ calls' = Put(calls, NewId,
                        [NewCall("removeFiles") EXCEPT !.keys = fileIds,
                            !.left = Len(fileKeys), !.had = Persisted(fileKeys)])
                /\ ev' = Event("removeFiles", "called", NoRet)
        /\ UNCHANGED <<db, sizeCache, files, saves>>

\* the store's clearAllFiles(): awaits fileStorage.clearAllFiles()
StoreClearAllFiles ==
    /\ ncalls' = ncalls + 1
    /\ idb' = Append(idb, Request("keys", NewId))
    /\ calls' = Put(calls, NewId, NewCall("store.clearAllFiles"))
    /\ ev' = Event("store.clearAllFiles", "called", NoRet)
    /\ UNCHANGED <<db, sizeCache, files, saves>>

\* setFileStatus(fileId, status, error?): a falsy error removes the field
SetFileStatus(fileId, status, error) ==
    /\ ncalls' = ncalls + 1
    /\ files' = IF fileId \in DOMAIN files
                THEN [files EXCEPT ![fileId] =
                        [@ EXCEPT !.status = status,
                                  !.error = IF error \notin {NoError, ""}
                                            THEN error ELSE NoError]]
                ELSE files
    /\ ev' = Event("setFileStatus", "resolved", NoRet)
    /\ calls' = Written(calls, {fileId}, "touched")
    /\ UNCHANGED <<db, idb, sizeCache, saves>>

\* setFileError(fileId, error)
SetFileError(fileId, error) ==
    /\ ncalls' = ncalls + 1
    /\ files' = IF fileId \in DOMAIN files
                THEN [files EXCEPT ![fileId] =
                        [@ EXCEPT !.status = "error", !.error = error]]
                ELSE files
    /\ ev' = Event("setFileError", "resolved", NoRet)
    /\ UNCHANGED <<db, idb, sizeCache, saves, calls>>

(***************************************************************************)
(* useFileStore: the getters.                                              *)
(***************************************************************************)
\* the get requests loadFile issues for the entries under fileIds, in order
GetRequests(call, fileIds) ==
    [i \in DOMAIN fileIds |->
        [Request("get", call) EXCEPT !.idx = i,
            !.key = getFullKey(storage, files[fileIds[i]].fileKey),
            !.fkey = files[fileIds[i]].fileKey]]

\* getFile(fileId): undefined at once when there is no entry, and what
\* fileStorage.loadFile(metadata.fileKey) returns otherwise
GetFile(fileId) ==
    /\ IF fileId \notin DOMAIN files
       THEN /\ ev' = Event("getFile", "resolved", Undefined)
            /\ UNCHANGED <<idb, calls>>
       ELSE /\ idb' = idb \o GetRequests(NewId, <<fileId>>)
            /\ calls' = Put(calls, NewId,
                    [NewCall("getFile") EXCEPT !.key = fileId, !.left = 1])
            /\ ev' = Event("getFile", "called", NoRet)
    /\ ncalls' = ncalls + 1
    /\ UNCHANGED <<db, sizeCache, files, saves>>

\* the ids of a list in the order of their first occurrence: the keys of the
\* object that getFiles builds with reduce
Uniq(q) ==
    LET keep == {i \in DOMAIN q : \A j \in 1..(i - 1) : q[j] # q[i]}
        pos(i) == Cardinality({j \in keep : j <= i})
    IN  [n \in 1..Cardinality(keep) |-> q[CHOOSE i \in keep : pos(i) = n]]

\* getFiles(fileIds), also as called by getAllFiles (op): loadFiles of the
\* ids that have an entry; with none of them, Promise.all([]) gives {}
GetFiles(op, fileIds) ==
    LET present == SelectSeq(Uniq(fileIds), LAMBDA x : x \in DOMAIN files)
    IN  /\ IF present = <<>>
           THEN /\ ev' = Event(op, "resolved", FilesRet(<<>>))
                /\ UNCHANGED <<idb, calls>>
           ELSE /\ idb' = idb \o GetRequests(NewId, present)
                /\ calls' = Put(calls, NewId,
                        [NewCall(op) EXCEPT !.keys = fileIds,
                            !.left = Len(present)])
                /\ ev' = Event(op, "called", NoRet)
        /\ ncalls' = ncalls + 1
        /\ UNCHANGED <<db, sizeCache, files, saves>>

\* Object.keys(get().files): the ids of the map, in some fixed order
keysOf(fs) ==
    CHOOSE q \in [1..Cardinality(DOMAIN fs) -> DOMAIN fs] : Range(q) = DOMAIN fs

\* getAllFiles()
GetAllFiles == GetFiles("getAllFiles", keysOf(files))

\* hasFile(fileId)
HasFile(fileId) ==
    /\ ev' = Event("hasFile", "resolved",
                   [kind |-> "bool", b |-> fileId \in DOMAIN files])
    /\ ncalls' = ncalls + 1
    /\ UNCHANGED <<db, idb, sizeCache, files, saves, calls>>

\* getFileMetadata(fileId)
GetFileMetadata(fileId) ==
    /\ ev' = Event("getFileMetadata", "resolved",
                   IF fileId \in DOMAIN files
                   THEN [kind |-> "metadata", entries |-> {files[fileId]}]
                   ELSE Undefined)
    /\ ncalls' = ncalls + 1
    /\ UNCHANGED <<db, idb, sizeCache, files, saves, calls>>

\* getAllFileMetadata()
GetAllFileMetadata ==
    /\ ev' = Event("getAllFileMetadata", "resolved",
                   [kind |-> "metadata", entries |-> Range(files)])
    /\ ncalls' = ncalls + 1
    /\ UNCHANGED <<db, idb, sizeCache, files, saves, calls>>

\* getFilesByStatus(status)
GetFilesByStatus(status) ==
    /\ ev' = Event("getFilesByStatus", "resolved",
                   [kind |-> "metadata",
                    entries |-> {f \in Range(files) : f.status = status}])
    /\ ncalls' = ncalls + 1
    /\ UNCHANGED <<db, idb, sizeCache, files, saves, calls>>

Getters ==
    {"getFile", "getFiles", "getAllFiles", "hasFile", "getFileMetadata",
     "getAllFileMetadata", "getFilesByStatus"}

(***************************************************************************)
(* SpecSeq: calls made on the store one after another, each awaited        *)
(* before the next is made.  The saves of one addFiles call interleave.    *)
(***************************************************************************)
StoreFiles == {fileA, fileHuge}
Nonces == {"1-aaaaaaa", "2-bbbbbbb"}
FileIds == {generateFileKey(f, n) : f \in StoreFiles, n \in Nonces}
Statuses == {"pending", "uploading", "success", "error"}
Errors == {NoError, "upload failed"}

SeqsUpTo(S, n) == UNION {[1..m -> S] : m \in 1..n}

MayCall == Idle /\ ncalls < MaxStoreCalls

SeqAddFiles ==
    /\ MayCall
    /\ \E fs \in SeqsUpTo(StoreFiles, MaxBatch) :
       \E nonces \in [DOMAIN fs -> Nonces] : AddFiles(fs, nonces)
SeqRemoveFile == MayCall /\ \E id \in FileIds : RemoveFile(id)
SeqRemoveFiles ==
    MayCall /\ \E ids \in SeqsUpTo(FileIds, MaxBatch) : RemoveFiles(ids)
SeqClearAllFiles == MayCall /\ StoreClearAllFiles
SeqSetFileStatus ==
    /\ MayCall
    /\ \E id \in FileIds, st \in Statuses, e \in Errors : SetFileStatus(id, st, e)
SeqSetFileError == MayCall /\ \E id \in FileIds : SetFileError(id, "upload failed")

NextSeq ==
    \/ SeqAddFiles
    \/ SeqRemoveFile
    \/ SeqRemoveFiles
    \/ SeqClearAllFiles
    \/ SeqSetFileStatus
    \/ SeqSetFileError
    \/ SaveThrows
    \/ SaveReads
    \/ IdbSets
    \/ IdbDels
    \/ IdbKeyss
    \/ IdbDelManys

SpecSeq == Init /\ [][NextSeq]_vars

(***************************************************************************)
(* SpecStore: addFiles, removeFile, removeFiles and clearAllFiles called   *)
(* on the store at any time, also while earlier calls are pending.         *)
(***************************************************************************)
MayOverlap == ncalls < MaxOverlap

StoreAddFiles ==
    /\ MayOverlap
    /\ \E fs \in SeqsUpTo(StoreFiles, MaxBatch) :
       \E nonces \in [DOMAIN fs -> Nonces] : AddFiles(fs, nonces)
StoreRemoveFile == MayOverlap /\ \E id \in FileIds : RemoveFile(id)
StoreRemoveFiles ==
    MayOverlap /\ \E ids \in SeqsUpTo(FileIds, MaxBatch) : RemoveFiles(ids)
StoreClear == MayOverlap /\ StoreClearAllFiles

NextStore ==
    \/ StoreAddFiles
    \/ StoreRemoveFile
    \/ StoreRemoveFiles
    \/ StoreClear
    \/ SaveThrows
    \/ SaveReads
    \/ IdbSets
    \/ IdbDels
    \/ IdbKeyss
    \/ IdbDelManys

SpecStore == Init /\ [][NextStore]_vars

(***************************************************************************)
(* SpecFair: every operation of the store, the setters included, called    *)
(* at any time; every file read and every IndexedDB request that has been  *)
(* started completes or fails.                                             *)
(***************************************************************************)
StoreSetFileStatus ==
    /\ MayOverlap
    /\ \E id \in FileIds, st \in Statuses, e \in Errors : SetFileStatus(id, st, e)
StoreSetFileError ==
    MayOverlap /\ \E id \in FileIds : SetFileError(id, "upload failed")

NextAll ==
    \/ StoreAddFiles
    \/ StoreRemoveFile
    \/ StoreRemoveFiles
    \/ StoreClear
    \/ StoreSetFileStatus
    \/ StoreSetFileError
    \/ SaveThrows
    \/ SaveReads
    \/ IdbSets
    \/ IdbDels
    \/ IdbKeyss
    \/ IdbDelManys

SpecFair ==
    /\ Init /\ [][NextAll]_vars
    /\ WF_vars(SaveThrows) /\ WF_vars(SaveReads) /\ WF_vars(IdbSets)
    /\ WF_vars(IdbDels) /\ WF_vars(IdbKeyss) /\ WF_vars(IdbDelManys)

(***************************************************************************)
(* SpecGet: the getters of the store, called at any time before, while and *)
(* after addFiles, removeFile, removeFiles and clearAllFiles run.          *)
(***************************************************************************)
MayGet == ncalls < MaxGetCalls

StoreGetFile == MayGet /\ \E id \in FileIds : GetFile(id)
StoreGetFiles ==
    MayGet /\ \E ids \in SeqsUpTo(FileIds, MaxBatch) : GetFiles("getFiles", ids)
StoreGetAllFiles == MayGet /\ GetAllFiles
StoreHasFile == MayGet /\ \E id \in FileIds : HasFile(id)
StoreGetFileMetadata == MayGet /\ \E id \in FileIds : GetFileMetadata(id)
StoreGetAllFileMetadata == MayGet /\ GetAllFileMetadata
StoreGetFilesByStatus == MayGet /\ \E st \in Statuses : GetFilesByStatus(st)

NextGet ==
    \/ MayGet /\ StoreAddFiles
    \/ MayGet /\ StoreRemoveFile
    \/ MayGet /\ StoreRemoveFiles
    \/ MayGet /\ StoreClear
    \/ StoreGetFile
    \/ StoreGetFiles
    \/ StoreGetAllFiles
    \/ StoreHasFile
    \/ StoreGetFileMetadata
    \/ StoreGetAllFileMetadata
    \/ StoreGetFilesByStatus
    \/ SaveThrows
    \/ SaveReads
    \/ IdbSets
    \/ IdbDels
    \/ IdbKeyss
    \/ IdbDelManys
    \/ IdbGets

SpecGet == Init /\ [][NextGet]_vars

(***************************************************************************)
(* SpecLimit: addFiles called again and again with files of the largest    *)
(* size a save accepts (and files over it), each call awaited before the   *)
(* next, every generated key new.                                          *)
(***************************************************************************)
LimitFiles == {fileB, fileHuge}

\* `${Date.now()}-${random}` of the i-th file of the n-th call, all different
Digits == <<"0", "1", "2", "3", "4", "5", "6", "7", "8", "9">>
FreshNonce(n, i) == Digits[n + 1] \o Digits[i + 1] \o "-aaaaaaa"

LimitAddFiles ==
    /\ MayCall
    /\ \E fs \in SeqsUpTo(LimitFiles, MaxBatch) :
            AddFiles(fs, [i \in DOMAIN fs |-> FreshNonce(ncalls, i)])

NextLimit ==
    \/ LimitAddFiles
    \/ SaveThrows
    \/ SaveReads
    \/ IdbSets

SpecLimit == Init /\ [][NextLimit]_vars

(***************************************************************************)
(* SpecSession: saves made one after another through a FileStorageService, *)
(* and new sessions: a new FileStorageService over the same namespace,     *)
(* whose records outlive the instance.                                     *)
(***************************************************************************)
\* new FileStorageService(): `sizeCache = new Map()` and a new IndexedDb with
\* the prefix "local-files"; the constructor reads nothing from the store
NewFileStorageService ==
    /\ sizeCache' = EmptyMap
    /\ ev' = Event("constructor", "resolved", NoRet)
    /\ UNCHANGED <<db, idb, files, saves, calls, ncalls>>

SessionFiles == {fileB}

SessionSaveFile ==
    Idle /\ \E k \in SvcKeys, f \in SessionFiles : SaveFile(k, f)
\* a session ends with nothing in flight
SessionNew == Idle /\ NewFileStorageService

NextSession ==
    \/ SessionSaveFile
    \/ SessionNew
    \/ SaveThrows
    \/ SaveReads
    \/ IdbSets

SpecSession == Init /\ [][NextSession]_vars

(***************************************************************************)
(* Properties of the service under SpecSvc.                                *)
(***************************************************************************)
\* the sum of the sizes of the records persisted under the service's namespace
PersistedTotal ==
    LET ks == prefixedKeys(storage, DOMAIN db)
    IN  SumOf([k \in ks |-> db[k].size], ks)

\* a pending call of saveFile that this step makes or finds pending
SaveCalls(cs) == {id \in DOMAIN cs : cs[id].op = "saveFile"}

\* C1: in a sequence of saveFile calls made one after another, a call whose
\* file size added to the running total read at call time exceeds
\* MAX_TOTAL_SIZE changes nothing when it is made, and the step that follows
\* it is its rejection, which leaves every persisted record and every
\* size-cache entry as it was.
C1_TotalLimitSaveFails ==
    [][/\ \A id \in SaveCalls(calls') \ DOMAIN calls :
            db' = db /\ sizeCache' = sizeCache
       /\ \A id \in SaveCalls(calls) :
            calls[id].total + calls[id].file.size > MAX_TOTAL_SIZE
            => /\ id \notin DOMAIN calls'
               /\ ev'.op = "saveFile" /\ ev'.outcome = "rejected"
               /\ db' = db /\ sizeCache' = sizeCache]_vars

\* a save was just rejected for the total limit, with the five earlier 100 MiB
\* records still persisted and cached
C1_Witness ==
    /\ ev = Event("saveFile", "rejected", ErrorRet(TotalLimitMessage))
    /\ getTotalSize(sizeCache) = MAX_TOTAL_SIZE
    /\ Cardinality(DOMAIN db) = 5
    /\ \A k \in DOMAIN db : db[k] = fileToStoredFile(fileB)

\* C2: a saveFile call for a file larger than MAX_FILE_SIZE, whatever the
\* running total, is rejected in the step that follows it and leaves the
\* persisted namespace and the size cache unchanged.
C2_OversizedSaveFails ==
    [][\A id \in SaveCalls(calls) :
            calls[id].file.size > MAX_FILE_SIZE
            => /\ id \notin DOMAIN calls'
               /\ ev'.op = "saveFile" /\ ev'.outcome = "rejected"
               /\ db' = db /\ sizeCache' = sizeCache]_vars

\* the oversized file was just rejected for its own size while records of
\* earlier saves are persisted
C2_Witness ==
    /\ ev = Event("saveFile", "rejected", ErrorRet(FileLimitMessage(fileHuge)))
    /\ getTotalSize(sizeCache) > 0
    /\ DOMAIN db # {}

SameContent(f, g) ==
    /\ f.name = g.name
    /\ f.type = g.type
    /\ f.lastModified = g.lastModified
    /\ f.data = g.data

\* C9: when saveFile(k, f) resolves, loadFile(k) (with a storage read that
\* does not fail) returns a file with the name, type, lastModified and bytes
\* of f, also when k held a different record before.
C9_RoundTrip ==
    [][\A id \in SaveCalls(calls) :
            id \notin DOMAIN calls' /\ ev'.outcome = "resolved"
            => LET r == loadFile(db', getFullKey(storage, calls[id].key), TRUE)
               IN  r.kind = "file" /\ SameContent(r.file, calls[id].file)]_vars

\* a save just resolved that replaced a different record under its key
C9_Witness == ev = Event("saveFile", "resolved", StoredRet(TRUE))

\* C10: on a fresh service over an empty namespace, with calls made one after
\* another, the size cache sums to the sizes of the records persisted in the
\* namespace, and that is what getTotalSize() returns.
C10_TotalIsPersistedTotal ==
    /\ getTotalSize(sizeCache) = PersistedTotal
    /\ ev.op = "getTotalSize" => ev.ret = SizeRet(PersistedTotal)

\* getTotalSize() just returned 10 with only the 10-byte file persisted
C10_Witness ==
    /\ ev = Event("getTotalSize", "resolved", SizeRet(10))
    /\ DOMAIN db = {getFullKey(storage, "k1")}
    /\ db[getFullKey(storage, "k1")] = fileToStoredFile(fileA)

(***************************************************************************)
(* Properties of the metadata store.                                       *)
(***************************************************************************)
Record(fileKey) == getFullKey(storage, fileKey)

\* C3: every metadata entry with status success has a persisted record
\* under its fileKey, in every reachable state.
C3_SuccessHasRecord ==
    \A id \in DOMAIN files :
        files[id].status = "success" => Record(files[id].fileKey) \in DOMAIN db

\* C5: when clear() of a namespace resolves, none of the namespace's keys
\* is left in the underlying store, and every key of every namespace with
\* another prefix is there as before, with the value it had.
C5_ClearExact ==
    [][\A id \in DOMAIN calls :
        calls[id].op = "ns.clear" /\ id \notin DOMAIN calls'
        /\ ev'.outcome = "resolved"
        => LET ns == calls[id].ns
           IN  /\ \A k \in NsKeys : getFullKey(ns, k) \notin DOMAIN db'
               /\ \A m \in Namespaces, k \in NsKeys :
                    m.prefix # ns.prefix /\ getFullKey(m, k) \in DOMAIN db
                    => /\ getFullKey(m, k) \in DOMAIN db'
                       /\ db'[getFullKey(m, k)] = db[getFullKey(m, k)]]_vars

\* the file is over a limit by the checks saveFile makes at call time
OverLimit(file, total) ==
    ExceedsFileSize(file) \/ total + file.size > MAX_TOTAL_SIZE

\* C4: when addFiles([f1, f2]) resolves, with the two files in either
\* order, one of them saved and the other over the size limit, the entry
\* of the first has status success and the entry of the second has status
\* error.
C4_FailureIsolated ==
    [][\A id \in DOMAIN calls :
        /\ calls[id].op = "addFiles" /\ id \notin DOMAIN calls'
        /\ Len(calls[id].entries) = 2
        => LET es == ev'.ret.entries
           IN  \A i \in DOMAIN es, j \in DOMAIN es :
                 es[i].success /\ OverLimit(es[j].file, calls[id].total)
                 => /\ es[i].fileId \in DOMAIN files'
                    /\ es[j].fileId \in DOMAIN files'
                    /\ files'[es[i].fileId].status = "success"
                    /\ files'[es[j].fileId].status = "error"]_vars

\* addFiles([oversized, small]) just resolved: the second file is saved and
\* has status success, the first has status error
C4_Witness ==
    /\ ev.op = "addFiles" /\ ev.outcome = "resolved"
    /\ Len(ev.ret.entries) = 2
    /\ ev.ret.entries[1].file = fileHuge /\ ~ev.ret.entries[1].success
    /\ ev.ret.entries[2].file = fileA /\ ev.ret.entries[2].success
    /\ files[ev.ret.entries[1].fileId].status = "error"
    /\ files[ev.ret.entries[2].fileId].status = "success"
    /\ Record(ev.ret.entries[2].fileId) \in DOMAIN db

\* C6: while removeFile(id) is pending the metadata is not touched; if the
\* deletion fails the call rejects with the storage error and the metadata
\* is as it was; if the call resolves, the record is gone from the store
\* and the entry is the only one removed.
C6_RemoveFileOrder ==
    [][\A id \in DOMAIN calls :
        calls[id].op = "removeFile"
        => LET k == calls[id].key
           IN  /\ k \in DOMAIN files
               /\ id \in DOMAIN calls' => files' = files
               /\ id \notin DOMAIN calls' /\ ev'.outcome # "resolved"
                  => /\ ev' = Event("removeFile", "rejected",
                                    ErrorRet(EngineMessage))
                     /\ files' = files
                     /\ db' = db
               /\ id \notin DOMAIN calls' /\ ev'.outcome = "resolved"
                  => /\ Record(files[k].fileKey) \notin DOMAIN db'
                     /\ files' = Remove(files, {k})]_vars

\* removeFile just rejected and a success entry with its record is retained
C6_Witness ==
    /\ ev = Event("removeFile", "rejected", ErrorRet(EngineMessage))
    /\ \E id \in DOMAIN files :
         files[id].status = "success" /\ Record(files[id].fileKey) \in DOMAIN db

\* C7: when removeFiles(ids) rejects because the deletion of one key failed,
\* no metadata entry has been removed, and the record and the size-cache
\* entry of every other key of the batch that had a record are still there.
C7_BatchAbortedWhole ==
    [][\A id \in DOMAIN calls :
        calls[id].op = "removeFiles" /\ id \notin DOMAIN calls'
        /\ ev'.outcome = "rejected"
        => /\ files' = files
           /\ \A k \in calls[id].had \ {Head(idb).fkey} :
                Record(k) \in DOMAIN db' /\ k \in DOMAIN sizeCache']_vars

\* C8: every step of the store's clearAllFiles other than its successful
\* end (the call, the listing of the keys, a failure of the listing or of
\* the deletion) leaves the metadata map, the size cache and the store as
\* they were, and a failure rejects the call; the successful end leaves the
\* namespace, the size cache and the metadata map empty.
C8_ClearAllFiles ==
    [][ev'.op = "store.clearAllFiles"
       => IF ev'.outcome = "resolved"
          THEN /\ prefixedKeys(storage, DOMAIN db') = {}
               /\ sizeCache' = EmptyMap
               /\ files' = EmptyMap
          ELSE /\ files' = files /\ sizeCache' = sizeCache /\ db' = db
               /\ ev'.outcome \in {"called", "step", "rejected"}
               /\ ev'.outcome = "rejected" <=> ev'.ret = ErrorRet(EngineMessage)
      ]_vars

\* the store's clearAllFiles just rejected with entries, records and cached
\* sizes in place
C8_Witness ==
    /\ ev = Event("store.clearAllFiles", "rejected", ErrorRet(EngineMessage))
    /\ files # EmptyMap /\ sizeCache # EmptyMap /\ DOMAIN db # {}

\* the loadFile operations: FileStorageService.loadFile, in both sources
LoadCalls(cs) ==
    {id \in DOMAIN cs : cs[id].op \in {"loadFile", "file-service.loadFile"}}

\* C11: a loadFile call changes neither the store nor the size cache, it
\* never rejects, and it returns undefined when there is no record under
\* the key (a failed read included: the call still resolves).
C11_LoadFileNeverThrows ==
    [][/\ ev'.op \in {"loadFile", "file-service.loadFile"}
          => db' = db /\ sizeCache' = sizeCache
       /\ \A id \in LoadCalls(calls) :
            id \notin DOMAIN calls'
            => /\ ev'.outcome = "resolved"
               /\ ev'.ret.kind # "error"
               /\ getFullKey(storage, calls[id].key) \notin DOMAIN db
                  => ev'.ret = Undefined]_vars

\* C12: a call of removeFile either is for an id that has a metadata entry
\* or returns at once without error, with no request issued to the store
\* and the metadata map, the records and the size cache unchanged.
C12_RemoveFileNoEntry ==
    [][ev'.op = "removeFile" /\ ncalls' = ncalls + 1
       => IF DOMAIN calls' # DOMAIN calls
          THEN \A id \in DOMAIN calls' \ DOMAIN calls :
                  calls'[id].key \in DOMAIN files
          ELSE /\ ev' = Event("removeFile", "resolved", NoRet)
               /\ idb' = idb /\ files' = files
               /\ db' = db /\ sizeCache' = sizeCache /\ saves' = saves]_vars

\* addFiles of two files, then a removeFile that returned at once: both
\* entries are still there
C12_Witness ==
    /\ ev = Event("removeFile", "resolved", NoRet)
    /\ ncalls = 2 /\ Cardinality(DOMAIN files) = 2 /\ idb = <<>>
    /\ \E id \in DOMAIN files : files[id].status = "success"

Terminal == {"success", "error"}
Setters == {"setFileStatus", "setFileError"}
Removals == {"removeFile", "removeFiles", "store.clearAllFiles"}

AddCalls(cs) == {id \in DOMAIN cs : cs[id].op = "addFiles"}

\* C15: a pending addFiles call comes to an end, and its end is never a
\* rejection; at that step every entry the call created that is still in
\* the map, was not replaced by another addFiles and was not written by
\* setFileStatus has the status success or error.
C15_AddFilesResolves ==
    /\ \A id \in 1..MaxOverlap :
         (id \in AddCalls(calls)) ~> (id \notin DOMAIN calls)
    /\ [][\A id \in AddCalls(calls) :
            id \notin DOMAIN calls'
            => /\ ev'.op = "addFiles" /\ ev'.outcome = "resolved"
               /\ \A i \in DOMAIN calls[id].entries :
                    LET e == calls[id].entries[i]
                    IN  e.fileId \in DOMAIN files' /\ ~e.replaced /\ ~e.touched
                        => files'[e.fileId].status \in Terminal]_vars

\* an addFiles call of two files has resolved with both saves failed and
\* both entries in error
C15_Witness ==
    /\ ev.op = "addFiles" /\ ev.outcome = "resolved"
    /\ Len(ev.ret.entries) = 2
    /\ ev.ret.entries[1].fileId # ev.ret.entries[2].fileId
    /\ \A i \in 1..2 :
         /\ ~ev.ret.entries[i].success
         /\ ev.ret.entries[i].fileId \in DOMAIN files
         /\ files[ev.ret.entries[i].fileId].status = "error"

\* the entries of the addFiles call id after the step
EntriesAfter(id) ==
    IF id \in DOMAIN calls' THEN calls'[id].entries ELSE ev'.ret.entries

\* the saves of the addFiles call id that the step settles with a failure
FailedNow(id) ==
    {i \in DOMAIN calls[id].entries :
        /\ ~calls[id].entries[i].settled
        /\ EntriesAfter(id)[i].settled /\ ~EntriesAfter(id)[i].success}

SaveMessages(file) == {TotalLimitMessage, FileLimitMessage(file), EngineMessage}

C17_GettersReadOnly ==
    [][ev'.op \in Getters =>
        files' = files /\ db' = db /\ sizeCache' = sizeCache]_vars

\* getFile has resolved with undefined for an entry whose record is
\* persisted (its load failed) while a save is still in flight
C17_Witness ==
    /\ ev = Event("getFile", "resolved", Undefined)
    /\ \E k \in DOMAIN files : getFullKey(storage, files[k].fileKey) \in DOMAIN db
    /\ files # EmptyMap /\ saves # {}

(***************************************************************************)
(* Properties of the namespaces under SpecNs.                              *)
(***************************************************************************)
\* what get(key) on the instance ns returns from the store d
Got(d, ns, key) ==
    IF getFullKey(ns, key) \in DOMAIN d
    THEN [kind |-> "value", val |-> d[getFullKey(ns, key)]] ELSE Undefined

\* C18: when a set(k1, v) on one instance completes, what get(k2) returns on
\* every instance with a different prefix is what it returned before, for
\* every key k2.
C18_NamespacesDisjoint ==
    [][\A id \in DOMAIN calls :
        calls[id].op = "ns.set" /\ id \notin DOMAIN calls'
        => \A m \in Namespaces, k2 \in NsKeys :
                m.prefix # calls[id].ns.prefix
                => Got(db', m, k2) = Got(db, m, k2)]_vars

(***************************************************************************)
(* Properties of deleteFile / deleteFiles under SpecSvc.                   *)
(***************************************************************************)
\* the keys handed to a call of deleteFile or deleteFiles
GivenKeys(c) == IF c.op = "deleteFile" THEN {c.key} ELSE Range(c.keys)

\* map m is map n without the key k, and nothing else differs
Without(m, n, k) ==
    /\ DOMAIN m = DOMAIN n \ {k}
    /\ \A x \in DOMAIN m : m[x] = n[x]

\* C19: each deletion that deleteFile / deleteFiles issues is for one of the
\* given keys and changes at most the record and the size-cache entry of that
\* key; with neither present it changes nothing; a call that fails fails with
\* the storage engine's error; and when the call resolves, no given key has a
\* record or a size-cache entry.
C19_DeleteExact ==
    [][/\ idb # <<>> /\ Head(idb).op = "del" /\ Len(idb') < Len(idb)
          => LET r == Head(idb)
             IN  /\ r.key = getFullKey(storage, r.fkey)
                 /\ r.call \in DOMAIN calls => r.fkey \in GivenKeys(calls[r.call])
                 /\ db' = db \/ Without(db', db, r.key)
                 /\ sizeCache' = sizeCache \/ Without(sizeCache', sizeCache, r.fkey)
                 /\ r.key \notin DOMAIN db /\ r.fkey \notin DOMAIN sizeCache
                    => db' = db /\ sizeCache' = sizeCache
                 /\ ev'.outcome = "rejected" => ev'.ret = ErrorRet(EngineMessage)
       /\ \A id \in DOMAIN calls :
            /\ calls[id].op \in {"deleteFile", "deleteFiles"}
            /\ id \notin DOMAIN calls' /\ ev'.outcome = "resolved"
            => \A k \in GivenKeys(calls[id]) :
                 /\ getFullKey(storage, k) \notin DOMAIN db'
                 /\ k \notin DOMAIN sizeCache']_vars

\* deleteFiles has resolved and some records are left, each with its
\* size-cache entry
C19_Witness ==
    /\ ev = Event("deleteFiles", "resolved", NoRet)
    /\ DOMAIN db # {}
    /\ DOMAIN db = {getFullKey(storage, k) : k \in DOMAIN sizeCache}

(***************************************************************************)
(* Properties of the total-size limit under SpecLimit.                     *)
(***************************************************************************)
\* C20: in every reachable state, saves in flight or not, the running total
\* that getTotalSize() reports is at most MAX_TOTAL_SIZE.
C20_TotalWithinLimit == getTotalSize(sizeCache) <= MAX_TOTAL_SIZE

(***************************************************************************)
(* Properties of overlapping store operations under SpecStore.             *)
(***************************************************************************)
\* every operation that was started has completed: no call is pending, no
\* file is being read and no IndexedDB request is outstanding
Quiescent == calls = EmptyMap /\ saves = {} /\ idb = <<>>

\* C21: once every operation started through the store has completed, every
\* record persisted under the namespace and every size-cache entry has a
\* metadata entry with the same fileKey.
C21_NoOrphan ==
    Quiescent =>
        /\ \A k \in prefixedKeys(storage, DOMAIN db) :
             \E id \in DOMAIN files : Record(files[id].fileKey) = k
        /\ \A k \in DOMAIN sizeCache :
             \E id \in DOMAIN files : files[id].fileKey = k

\* C22: a step in which a save launched by addFiles settles (or moves on)
\* adds no entry to the metadata map, so an entry removed while its save was
\* in flight stays removed, and it updates at most one entry, in one piece.
C22_NoRecreation ==
    [][ev'.op = "addFiles" /\ ev'.outcome # "called"
        => /\ DOMAIN files' = DOMAIN files
           /\ Cardinality({k \in DOMAIN files : files'[k] # files[k]}) <= 1]_vars

\* addFiles has resolved with a save that succeeded, the record is persisted
\* and the entry, removed in the meantime, is not in the map
C22_Witness ==
    /\ ev.op = "addFiles" /\ ev.outcome = "resolved"
    /\ \E i \in DOMAIN ev.ret.entries :
          /\ ev.ret.entries[i].success
          /\ ev.ret.entries[i].fileId \notin DOMAIN files
          /\ Record(ev.ret.entries[i].fileId) \in DOMAIN db

(***************************************************************************)
(* Properties of the total-size limit across sessions under SpecSession.   *)
(***************************************************************************)
\* C23: whatever instances of FileStorageService the saves were made
\* through, the sizes of the records persisted in the namespace sum to at
\* most MAX_TOTAL_SIZE.
C23_PersistedWithinLimit == PersistedTotal <= MAX_TOTAL_SIZE

====
